---- MODULE Spec2Model ----
(***************************************************************************)
(* V-EA-LongerTrends: a MetaTrader 5 expert advisor.  OnTick reads the H1  *)
(* indicator buffers, gates on a new H1 bar, evaluates the long and short  *)
(* entries and then manages the position selected on the symbol with the   *)
(* D1 exits and the ATR trailing stop.                                     *)
(*                                                                         *)
(* Prices are integer points (SYMBOL_POINT is one price unit), times are   *)
(* seconds of server time.  A dynamic array is a sequence; sample [i] of   *)
(* the source is element i+1.  The terminal is a hedging account: every    *)
(* accepted Buy/Sell opens a position of its own, PositionSelect(symbol)   *)
(* and the CTrade calls by symbol work on the position with the lowest     *)
(* ticket, and the Position* getters read the copy made by the last        *)
(* selection.  Reading past the end of an array is a critical error that   *)
(* stops the expert.                                                       *)
(***************************************************************************)
EXTENDS Integers, Sequences, FiniteSets, TLC

\* ------------------------------------------------------------ inputs
InpStopLoss        == 50
InpTakeProfit      == 100
InpRSIUpperLevel   == 60
InpRSILowerLevel   == 40
InpRSIExitLevel    == 50
InpATRMultiplier   == 3
InpMinHoldDuration == 60

\* SymbolInfoDouble(_Symbol, SYMBOL_POINT), in points
SymbolPoint    == 1
\* seconds in a PERIOD_H1 bar
PERIOD_H1      == 3600
INVALID_HANDLE == -1

\* ------------------------------------------------------------ bounds
\* H1 bars the run covers after the expert is attached
MaxBars      == 2
\* open positions the account allows on the symbol
MaxPositions == 2

\* ------------------------------------------------------------ input sets
\* seconds between two ticks
TickGaps      == {1800, 3600}
\* bid, ask and the newest H1 ATR sample
Markets       == {[bid |-> 1000, ask |-> 1002, atr |-> 20],
                  [bid |-> 1020, ask |-> 1022, atr |-> 20],
                  [bid |-> 1020, ask |-> 1022, atr |-> 10]}
\* H1 trend EMA, newest first: rising, falling
TrendSeries   == {<<1010, 1000, 990>>, <<990, 1000, 1010>>}
\* H1 RSI, newest first: up through 40, down through 60
RsiSeries     == {<<41, 40, 39>>, <<59, 60, 61>>}
\* D1 trend EMA, newest first: falling, rising
D1TrendSeries == {<<1005, 1015, 1020>>, <<1015, 1005, 1000>>}
\* D1 RSI, newest first: up through 50, down through 50
D1RsiSeries   == {<<51, 50, 49>>, <<49, 50, 51>>}
\* the server's answers of one tick to open, close and modify requests:
\* all accepted, or one kind refused
Replies       == {[open |-> TRUE, close |-> TRUE, modify |-> TRUE],
                  [open |-> FALSE, close |-> TRUE, modify |-> TRUE],
                  [open |-> TRUE, close |-> FALSE, modify |-> TRUE],
                  [open |-> TRUE, close |-> TRUE, modify |-> FALSE]}
\* values iMA can hand out for a new indicator handle
NewHandles    == {16, 1010}
\* newest sample of the D1 exit EMA (period InpTrendExitPeriod), which stays in
\* the indicator: OnTick copies no buffer of it
ExitEmaValues == {1010}
\* the buffers OnTick copies on H1 and on D1
H1Buffers     == {"trendValue", "rsiValue", "macdMain", "macdSignal", "atrValue"}
D1Buffers     == {"trendValueHigher", "rsiValueHigher"}
\* the handles OnInit creates
InitHandles   == {"trendHandle", "rsiHandle", "macdHandle", "atrHandle"}

VARIABLES
    now,          \* TimeCurrent() at the last tick
    prevBarTime,  \* static datetime prevBarTime of OnTick
    positions,    \* the symbol's open positions, lowest ticket first
    lastTicket,   \* ticket of the last position the account opened
    stopped,      \* the expert was stopped by a critical error
    handles,      \* live indicator handles
    exitHandle,   \* value of the live D1 exit-EMA handle, or INVALID_HANDLE
    reqs,         \* trade requests of the last OnTick call, in order
    log,          \* messages of the last OnTick call, in order
    tick,         \* what the last OnTick call saw and how far it got
    bar           \* the H1 bar of the last tick and what was asked in it

vars == <<now, prevBarTime, positions, lastTicket, stopped, handles,
          exitHandle, reqs, log, tick, bar>>

\* ------------------------------------------------------------ helpers
\* arr[i] of the source
At(arr, i) == arr[i + 1]

\* iTime(_Symbol, PERIOD_H1, 0)
BarOpen(t) == t - (t % PERIOD_H1)

NoPosition == [ticket |-> 0, type |-> "NONE", sl |-> 0, tp |-> 0, time |-> 0]

\* a trade request: its stops, the server's answer, and of the position it opened
\* or worked on (NoPosition if none) the ticket, the stop-loss it had and its
\* opening time
Request(kind, sl, tp, ok, target) ==
    [kind |-> kind, sl |-> sl, tp |-> tp, ok |-> ok,
     ticket |-> target.ticket, was |-> target.sl, opened |-> target.time]

\* the state one OnTick call threads through its statements
Pass(p, t) == [positions |-> p, lastTicket |-> t, sel |-> NoPosition,
               reqs |-> <<>>, log |-> <<>>]

Log(g, msg) == [g EXCEPT !.log = Append(@, msg)]

\* ------------------------------------------------------------ order gateway (CTrade)
\* trade.Buy / trade.Sell: a market order with stops; m.open is the server's answer
PositionOpen(g, m, type, sl, tp) ==
    LET ok  == m.open /\ Len(g.positions) < MaxPositions
        pos == [ticket |-> g.lastTicket + 1, type |-> type, sl |-> sl, tp |-> tp,
                time |-> m.time]
    IN  [g EXCEPT !.positions  = IF ok THEN Append(@, pos) ELSE @,
                  !.lastTicket = IF ok THEN @ + 1 ELSE @,
                  !.reqs = Append(@, Request(IF type = "BUY" THEN "Buy" ELSE "Sell",
                                             sl, tp, ok, IF ok THEN pos ELSE NoPosition))]

\* PositionSelect(_Symbol): copies the position with the lowest ticket
PositionSelect(g) ==
    IF g.positions = <<>> THEN g ELSE [g EXCEPT !.sel = g.positions[1]]

\* trade.PositionClose(_Symbol): selects by symbol, then closes that position
PositionClose(g, m) ==
    LET found == g.positions # <<>>
        ok    == found /\ m.close
    IN  [PositionSelect(g) EXCEPT
            !.positions = IF ok THEN Tail(@) ELSE @,
            !.reqs = Append(@, Request("PositionClose", 0, 0, ok,
                                       IF found THEN g.positions[1] ELSE NoPosition))]

\* the server's stop check: stops of a buy lie around the bid, of a sell around the ask
ValidStops(type, sl, tp, m) ==
    IF type = "BUY" THEN sl < m.bid /\ tp > m.bid ELSE sl > m.ask /\ tp < m.ask

\* trade.PositionModify(_Symbol, sl, tp): selects by symbol, then sets its stops
PositionModify(g, m, sl, tp) ==
    LET found == g.positions # <<>>
        ok    == found /\ m.modify /\ ValidStops(g.positions[1].type, sl, tp, m)
    IN  [PositionSelect(g) EXCEPT
            !.positions = IF ok THEN [@ EXCEPT ![1].sl = sl, ![1].tp = tp] ELSE @,
            !.reqs = Append(@, Request("PositionModify", sl, tp, ok,
                                       IF found THEN g.positions[1] ELSE NoPosition))]

\* ------------------------------------------------------------ entries
\* LongSignal with the previous RSI sample strictly below the lower level
LongSignalStrict(trendValue, rsiValue) ==
    /\ At(trendValue, 0) > At(trendValue, 1)
    /\ At(rsiValue, 0) > InpRSILowerLevel
    /\ At(rsiValue, 1) < InpRSILowerLevel

LongSignal(trendValue, rsiValue) ==
    /\ At(trendValue, 0) > At(trendValue, 1)
    /\ At(rsiValue, 0) > InpRSILowerLevel
    /\ At(rsiValue, 1) <= InpRSILowerLevel

\* ShortSignal left as a copy of the long condition, no comparison reversed
ShortSignalUnreversed(trendValue, rsiValue) ==
    /\ At(trendValue, 0) > At(trendValue, 1)
    /\ At(rsiValue, 0) > InpRSILowerLevel
    /\ At(rsiValue, 1) <= InpRSILowerLevel

ShortSignal(trendValue, rsiValue) ==
    /\ At(trendValue, 0) < At(trendValue, 1)
    /\ At(rsiValue, 0) < InpRSIUpperLevel
    /\ At(rsiValue, 1) >= InpRSIUpperLevel

\* LongEntry measuring the stop-loss from the ask
LongEntryFromAsk(g, m) ==
    IF LongSignal(m.trendValue, m.rsiValue)
    THEN LET sl == m.ask - InpStopLoss * SymbolPoint
             tp == m.ask + InpTakeProfit * SymbolPoint
         IN  Log(PositionOpen(g, m, "BUY", sl, tp), "Long position opened")
    ELSE g

LongEntry(g, m) ==
    IF LongSignal(m.trendValue, m.rsiValue)
    THEN LET sl == m.bid - InpStopLoss * SymbolPoint
             tp == m.ask + InpTakeProfit * SymbolPoint
         IN  Log(PositionOpen(g, m, "BUY", sl, tp), "Long position opened")
    ELSE g

ShortEntry(g, m) ==
    IF ShortSignal(m.trendValue, m.rsiValue)
    THEN LET sl == m.ask + InpStopLoss * SymbolPoint
             tp == m.bid - InpTakeProfit * SymbolPoint
         IN  Log(PositionOpen(g, m, "SELL", sl, tp), "Short position opened")
    ELSE g

Entries(g, m) == ShortEntry(LongEntry(g, m), m)

\* ------------------------------------------------------------ position management
\* (int)((TimeCurrent() - posOpenTime) / 60)
PosDuration(t, posOpenTime) == (t - posOpenTime) \div 60

\* double trendExitValue = iMA(_Symbol, PERIOD_D1, InpTrendExitPeriod, ...): the
\* handle of the exit EMA, which equal parameters hand out again while it lives
ExitMA(h, new) == IF h # INVALID_HANDLE THEN h ELSE new

\* the values that call of iMA can return: the live handle, or any new one
LiveOrNew(h) == IF h # INVALID_HANDLE THEN {h} ELSE NewHandles

\* RsiExitLong without the minimum holding guard
RsiExitLongUnguarded(g, m, posDuration) ==
    IF At(m.rsiValueHigher, 0) > InpRSIExitLevel /\ At(m.rsiValueHigher, 1) <= InpRSIExitLevel
    THEN Log(PositionClose(g, m),
             "Long position closed due to RSI crossing above exit level")
    ELSE g

RsiExitLong(g, m, posDuration) ==
    IF At(m.rsiValueHigher, 0) > InpRSIExitLevel /\ At(m.rsiValueHigher, 1) <= InpRSIExitLevel
    THEN IF posDuration >= InpMinHoldDuration
         THEN Log(PositionClose(g, m),
                  "Long position closed due to RSI crossing above exit level")
         ELSE Log(g, "Long position RSI exit triggered but minimum holding period not met")
    ELSE g

TrendExitLong(g, m, posDuration, trendExitValue) ==
    IF At(m.trendValueHigher, 1) > trendExitValue /\ At(m.trendValueHigher, 0) < trendExitValue
    THEN IF posDuration >= InpMinHoldDuration
         THEN Log(PositionClose(g, m),
                  "Long position closed due to price crossing below Trend EMA")
         ELSE Log(g, "Long position trend exit triggered but minimum holding period not met")
    ELSE g

TrailLong(g, m) ==
    LET currentStop == g.sel.sl
        newStop     == m.bid - InpATRMultiplier * m.currentATR
    IN  IF newStop > currentStop
        THEN Log(PositionModify(g, m, newStop, g.sel.tp),
                 "Long position ATR-based trailing stop updated")
        ELSE g

RsiExitShort(g, m, posDuration) ==
    IF /\ At(m.rsiValueHigher, 0) < (100 - InpRSIExitLevel)
       /\ At(m.rsiValueHigher, 1) >= (100 - InpRSIExitLevel)
    THEN IF posDuration >= InpMinHoldDuration
         THEN Log(PositionClose(g, m),
                  "Short position closed due to RSI crossing below exit level")
         ELSE Log(g, "Short position RSI exit triggered but minimum holding period not met")
    ELSE g

TrendExitShort(g, m, posDuration, trendExitValue) ==
    IF At(m.trendValueHigher, 1) < trendExitValue /\ At(m.trendValueHigher, 0) > trendExitValue
    THEN IF posDuration >= InpMinHoldDuration
         THEN Log(PositionClose(g, m),
                  "Short position closed due to price crossing above Trend EMA")
         ELSE Log(g, "Short position trend exit triggered but minimum holding period not met")
    ELSE g

TrailShort(g, m) ==
    LET currentStop == g.sel.sl
        newStop     == m.ask + InpATRMultiplier * m.currentATR
    IN  IF newStop < currentStop
        THEN Log(PositionModify(g, m, newStop, g.sel.tp),
                 "Short position ATR-based trailing stop updated")
        ELSE g

\* the body of if(PositionSelect(_Symbol)) once the D1 buffers are read; g holds
\* the selected position
Manage(g, m, trendExitValue) ==
    LET posType     == g.sel.type
        posDuration == PosDuration(m.time, g.sel.time)
    IN  IF posType = "BUY"
        THEN TrailLong(TrendExitLong(RsiExitLong(g, m, posDuration),
                                     m, posDuration, trendExitValue), m)
        ELSE IF posType = "SELL"
        THEN TrailShort(TrendExitShort(RsiExitShort(g, m, posDuration),
                                       m, posDuration, trendExitValue), m)
        ELSE g

\* ------------------------------------------------------------ OnTick
NoMarket == [bid |-> 0, ask |-> 0, atr |-> 0]

\* what one OnTick call saw: the buffer whose copy came short ("" if none), whether
\* it passed the new-bar gate, the positions open when it began, the position it
\* selected, whether it reached the exit checks, the samples it read, and the
\* newest sample the D1 exit EMA held when it reached the exit checks (0 before)
Seen(missing, newBar, held, selected, managed, mk, tv, rv, tvh, rvh, ema) ==
    [ran |-> TRUE, missing |-> missing, newBar |-> newBar, held |-> held,
     selected |-> selected, managed |-> managed, market |-> mk,
     trendValue |-> tv, rsiValue |-> rv,
     trendValueHigher |-> tvh, rsiValueHigher |-> rvh, exitEma |-> ema]

NoTick == [Seen("", FALSE, 0, NoPosition, FALSE, NoMarket, <<>>, <<>>, <<>>, <<>>, 0)
           EXCEPT !.ran = FALSE]

Count(rq, kind) == Cardinality({i \in DOMAIN rq : rq[i].kind = kind})

\* the H1 bar the tick at t falls in: its first tick's samples and the entry
\* requests of all its ticks so far
NextBar(t, tk, rq) ==
    IF BarOpen(t) # bar.time
    THEN [time |-> BarOpen(t), ticks |-> 1, missing |-> tk.missing,
          trendValue |-> tk.trendValue, rsiValue |-> tk.rsiValue,
          buys |-> Count(rq, "Buy"), sells |-> Count(rq, "Sell")]
    ELSE [bar EXCEPT !.ticks = @ + 1,
                     !.buys  = @ + Count(rq, "Buy"),
                     !.sells = @ + Count(rq, "Sell")]

Return(t, pbt, g, stop, hs, eh, tk) ==
    /\ now'         = t
    /\ prevBarTime' = pbt
    /\ positions'   = g.positions
    /\ lastTicket'  = g.lastTicket
    /\ stopped'     = stop
    /\ handles'     = hs
    /\ exitHandle'  = eh
    /\ reqs'        = g.reqs
    /\ log'         = g.log
    /\ tick'        = tk
    /\ bar'         = NextBar(t, tk, g.reqs)

\* SameBar with the gate left out: every tick runs the entries and the exits
SameBarNever(currentBarTime, pbt) == FALSE

\* the new-bar gate: TRUE when OnTick returns before the entries
SameBar(currentBarTime, pbt) == currentBarTime = pbt

Inputs(t, mk, tv, rv, tvh, rvh, reply) ==
    [time |-> t, bid |-> mk.bid, ask |-> mk.ask, currentATR |-> mk.atr,
     trendValue |-> tv, rsiValue |-> rv,
     trendValueHigher |-> tvh, rsiValueHigher |-> rvh,
     open |-> reply.open, close |-> reply.close, modify |-> reply.modify]

OnTick ==
    /\ ~stopped
    /\ \E gap \in TickGaps :
        LET t     == now + gap
            held  == Len(positions)
            g0    == Pass(positions, lastTicket)
        IN
        /\ t < (MaxBars + 1) * PERIOD_H1
        /\ \/ \* a copy of an H1 buffer comes short: atrValue[0] or a logged sample
              \* is out of range
              \E b \in H1Buffers :
                 Return(t, prevBarTime, g0, TRUE, handles, exitHandle,
                        Seen(b, FALSE, held, NoPosition, FALSE, NoMarket,
                             <<>>, <<>>, <<>>, <<>>, 0))
           \/ \E mk \in Markets, tv \in TrendSeries, rv \in RsiSeries :
                 LET g1             == Log(g0, "indicator values")
                     currentBarTime == BarOpen(t)
                 IN
                 IF SameBar(currentBarTime, prevBarTime)
                 THEN Return(t, prevBarTime, g1, FALSE, handles, exitHandle,
                             Seen("", FALSE, held, NoPosition, FALSE, mk,
                                  tv, rv, <<>>, <<>>, 0))
                 ELSE \E reply \in Replies :
                    LET g2 == Entries(g1, Inputs(t, mk, tv, rv, <<>>, <<>>, reply))
                        g3 == PositionSelect(g2)
                        hs == handles \cup {"trendHandleHigher", "rsiHandleHigher"}
                    IN
                    IF g2.positions = <<>>
                    THEN Return(t, currentBarTime, g2, FALSE, handles, exitHandle,
                                Seen("", TRUE, held, NoPosition, FALSE, mk,
                                     tv, rv, <<>>, <<>>, 0))
                    ELSE \/ \* a copy of a D1 buffer comes short: the logged
                            \* sample is out of range
                            \E b \in D1Buffers :
                               Return(t, currentBarTime, g3, TRUE, hs, exitHandle,
                                      Seen(b, TRUE, held, g3.sel, FALSE, mk,
                                           tv, rv, <<>>, <<>>, 0))
                         \/ \E tvh \in D1TrendSeries, rvh \in D1RsiSeries,
                               new \in LiveOrNew(exitHandle), ema \in ExitEmaValues :
                               LET m  == Inputs(t, mk, tv, rv, tvh, rvh, reply)
                                   eh == ExitMA(exitHandle, new)
                                   g4 == Manage(Log(g3, "D1 indicator values"), m, eh)
                               IN  Return(t, currentBarTime, g4, FALSE,
                                          handles \cup {"exitMA"}, eh,
                                          Seen("", TRUE, held, g3.sel, TRUE, mk,
                                               tv, rv, tvh, rvh, ema))

\* OnDeinit: releases the four handles of OnInit
OnDeinit ==
    /\ ~stopped
    /\ stopped' = TRUE
    /\ handles' = handles \ InitHandles
    /\ UNCHANGED <<now, prevBarTime, positions, lastTicket, exitHandle, reqs, log,
                   tick, bar>>

\* the state after OnInit succeeded, before the first tick
Init ==
    /\ now         = PERIOD_H1
    /\ prevBarTime = 0
    /\ positions   = <<>>
    /\ lastTicket  = 0
    /\ stopped     = FALSE
    /\ handles     = InitHandles
    /\ exitHandle  = INVALID_HANDLE
    /\ reqs        = <<>>
    /\ log         = <<>>
    /\ tick        = NoTick
    /\ bar         = [time |-> 0, ticks |-> 0, missing |-> "",
                      trendValue |-> <<>>, rsiValue |-> <<>>, buys |-> 0, sells |-> 0]

Next == OnTick \/ OnDeinit

Spec == Init /\ [][Next]_vars

\* ------------------------------------------------------------ properties
IsOpen(r)   == r.kind \in {"Buy", "Sell"}
IsClose(r)  == r.kind = "PositionClose"
IsModify(r) == r.kind = "PositionModify"

Issued(rq, P(_)) == \E i \in DOMAIN rq : P(rq[i])

\* whole minutes the position selected by the last tick had been open at that tick
SelectedMinutes == (now - tick.selected.time) \div 60

\* the last tick read every buffer it asked for
AllRead == tick.ran /\ tick.missing = ""

\* the position selected by the last tick is still open
SelectedStillOpen == \E i \in DOMAIN positions : positions[i].ticket = tick.selected.ticket

\* samples that show a rising trend EMA and the RSI crossing up through the lower level
ShowsLongEntry(tv, rv) ==
    /\ Len(tv) >= 2 /\ Len(rv) >= 2
    /\ tv[1] > tv[2] /\ rv[1] > InpRSILowerLevel /\ rv[2] <= InpRSILowerLevel

ShowsShortEntry(tv, rv) ==
    /\ Len(tv) >= 2 /\ Len(rv) >= 2
    /\ tv[1] < tv[2] /\ rv[1] < InpRSIUpperLevel /\ rv[2] >= InpRSIUpperLevel

\* the D1 samples of the last tick show an exit signal for the selected position:
\* the RSI reversal, or the trend samples crossing the value OnTick compares them with
ShowsExit ==
    /\ tick.managed
    /\ LET r == tick.rsiValueHigher
           e == tick.trendValueHigher
       IN  IF tick.selected.type = "BUY"
           THEN \/ r[1] > InpRSIExitLevel /\ r[2] <= InpRSIExitLevel
                \/ e[2] > exitHandle /\ e[1] < exitHandle
           ELSE \/ r[1] < 100 - InpRSIExitLevel /\ r[2] >= 100 - InpRSIExitLevel
                \/ e[2] < exitHandle /\ e[1] > exitHandle

C2_EntriesOnlyOnNewBar ==
    [][now' # now =>
        /\ BarOpen(now') = prevBarTime => ~Issued(reqs', IsOpen)
        /\ Issued(reqs', IsOpen) => bar'.ticks = 1]_vars

\* a second tick of a bar whose samples show the long entry and which asks nothing
C2_Witness ==
    /\ AllRead /\ bar.ticks = 2 /\ reqs = <<>>
    /\ ShowsLongEntry(tick.trendValue, tick.rsiValue)

\* C3 (as claimed): after a close-position request no further close and no
\* modify-stop request is issued in the same tick.
C3_CloseEndsManagement ==
    \A i, j \in DOMAIN reqs :
        (i < j /\ IsClose(reqs[i])) => ~(IsClose(reqs[j]) \/ IsModify(reqs[j]))

\* C4 (as claimed): no close-position request is issued for a position that has
\* been open for less than InpMinHoldDuration whole minutes.
C4_NoCloseBeforeMinHold ==
    \A i \in DOMAIN reqs :
        (IsClose(reqs[i]) /\ reqs[i].ticket # 0) =>
            (now - reqs[i].opened) \div 60 >= InpMinHoldDuration

\* the holding guard as OnTick applies it, to the position it selected: a close
\* is asked only once that position is InpMinHoldDuration minutes old, and before
\* that it stays open
HoldGuardOnSelected ==
    tick.managed =>
        /\ Issued(reqs, IsClose) => SelectedMinutes >= InpMinHoldDuration
        /\ SelectedMinutes < InpMinHoldDuration => SelectedStillOpen

\* C5 (as claimed): a tick in which an exit signal fires for a position held for
\* less than the minimum holding duration issues neither a close nor a modify
\* request.
C5_HeldExitNoCloseNoModify ==
    (ShowsExit /\ SelectedMinutes < InpMinHoldDuration) =>
        ~Issued(reqs, IsClose) /\ ~Issued(reqs, IsModify)

\* C5 (amended): a tick in which an exit signal fires for a position held for less
\* than the minimum holding duration issues no close request and the position
\* stays open; the trailing stop is still evaluated, and a modify request of that
\* tick carries a stop tighter than the stop of the selected position and its
\* take-profit.
C5_HeldExitNoClose ==
    (ShowsExit /\ SelectedMinutes < InpMinHoldDuration) =>
        /\ ~Issued(reqs, IsClose)
        /\ SelectedStillOpen
        /\ \A i \in DOMAIN reqs :
              IsModify(reqs[i]) =>
                 /\ reqs[i].tp = tick.selected.tp
                 /\ IF tick.selected.type = "BUY"
                    THEN reqs[i].sl > tick.selected.sl
                    ELSE reqs[i].sl < tick.selected.sl

\* an exit signal on a position held for 30 minutes, and the stop is moved
C5_Witness ==
    /\ ShowsExit /\ SelectedMinutes = 30
    /\ \E i \in DOMAIN reqs : IsModify(reqs[i]) /\ reqs[i].ok

\* the stop-loss a position of side type may move to from sl: up for a buy, down
\* for a sell
Tighter(type, sl, from) == IF type = "BUY" THEN sl > from ELSE sl < from

\* the side of the open position with ticket k
TypeOf(ps, k) == ps[CHOOSE i \in DOMAIN ps : ps[i].ticket = k].type

\* C6 (as claimed): a modify-stop request is issued only with a stop strictly
\* tighter than the current stop-loss of the position it changes, and so over any
\* sequence of ticks the stop-loss of a long position never decreases and that of
\* a short position never increases.
C6_StopOnlyTightens ==
    [][now' # now =>
        /\ \A k \in DOMAIN reqs' :
              (IsModify(reqs'[k]) /\ reqs'[k].ticket # 0) =>
                  Tighter(TypeOf(positions', reqs'[k].ticket), reqs'[k].sl, reqs'[k].was)
        /\ \A i \in DOMAIN positions, j \in DOMAIN positions' :
              positions'[j].ticket = positions[i].ticket =>
                  \/ positions'[j].sl = positions[i].sl
                  \/ Tighter(positions[i].type, positions'[j].sl, positions[i].sl)]_vars

\* C7 (as claimed): a tick in which the copy of an indicator buffer (H1 trend, RSI,
\* MACD, ATR, or D1 trend, RSI) comes short issues no open, close or modify request.
C7_MissingSeriesNoRequest ==
    (tick.ran /\ tick.missing # "") => reqs = <<>>

\* C8 (as claimed): an open-long or open-short request is issued only in a tick at
\* whose start no position is open on the symbol.
C8_OpenOnlyWhenFlat ==
    Issued(reqs, IsOpen) => tick.held = 0

Accepted(rq, P(_)) == \E i \in DOMAIN rq : P(rq[i]) /\ rq[i].ok

\* C9 (as claimed): the symbol has at most one open position; it appears only by
\* an entry, disappears only by an exit that passed, and otherwise changes only by
\* a trailing-stop modification that keeps its side.
C9_SinglePositionLifecycle ==
    [][now' # now =>
       /\ Len(positions') <= 1
       /\ (positions = <<>> /\ positions' # <<>>) => Accepted(reqs', IsOpen)
       /\ (positions # <<>> /\ positions' = <<>>) => Accepted(reqs', IsClose)
       /\ (positions # <<>> /\ positions' # <<>> /\ positions' # positions) =>
             /\ Accepted(reqs', IsModify)
             /\ positions'[1].type = positions[1].type
             /\ positions'[1].ticket = positions[1].ticket]_vars

\* C10: in every H1 bar whose first tick read the H1 buffers and shows a rising
\* trend EMA and the RSI crossing up through the lower level, exactly one open-long
\* request is issued over all ticks of the bar.
C10_OneLongPerQualifyingBar ==
    (bar.ticks >= 1 /\ ShowsLongEntry(bar.trendValue, bar.rsiValue)) => bar.buys = 1

\* a qualifying bar whose second tick shows the long entry again: still one request
C10_Witness ==
    /\ bar.ticks = 2 /\ bar.buys = 1
    /\ ShowsLongEntry(bar.trendValue, bar.rsiValue)
    /\ AllRead /\ ShowsLongEntry(tick.trendValue, tick.rsiValue)

\* the D1 RSI samples of the last tick cross the exit level against the selected
\* position: up through InpRSIExitLevel for a buy, down through 100 - InpRSIExitLevel
\* for a sell
ShowsRsiExit ==
    /\ tick.managed
    /\ LET r == tick.rsiValueHigher
       IN  IF tick.selected.type = "BUY"
           THEN r[1] > InpRSIExitLevel /\ r[2] <= InpRSIExitLevel
           ELSE r[1] < 100 - InpRSIExitLevel /\ r[2] >= 100 - InpRSIExitLevel

\* C11 (as claimed): a tick that manages a position held for at least
\* InpMinHoldDuration minutes while the D1 RSI crosses the exit level against it
\* (up for a long, down for a short) issues exactly one close-position request.
C11_RsiExitClosesOnce ==
    (ShowsRsiExit /\ SelectedMinutes >= InpMinHoldDuration) =>
        Count(reqs, "PositionClose") = 1

\* the last tick made the close call of the trend exit (the message follows the
\* call whatever the server answered)
TrendExitCalled ==
    \E i \in DOMAIN log :
        log[i] \in {"Long position closed due to price crossing below Trend EMA",
                    "Short position closed due to price crossing above Trend EMA"}

\* the two newest D1 trend samples of the last tick cross the value v against the
\* selected position: from above to below for a buy, from below to above for a sell
CrossesAgainst(v) ==
    LET e == tick.trendValueHigher
    IN  IF tick.selected.type = "BUY"
        THEN e[2] > v /\ e[1] < v
        ELSE e[2] < v /\ e[1] > v

\* C12 (as claimed): for a position held for at least InpMinHoldDuration minutes
\* the trend exit asks for the close if and only if the two newest D1 trend
\* samples cross the newest value of the D1 exit EMA against the position.
C12_TrendExitAgainstExitEma ==
    (tick.managed /\ SelectedMinutes >= InpMinHoldDuration) =>
        (TrendExitCalled <=> CrossesAgainst(tick.exitEma))

\* what OnTick compares the samples with is the handle iMA returned
TrendExitAgainstHandle ==
    (tick.managed /\ SelectedMinutes >= InpMinHoldDuration) =>
        (TrendExitCalled <=> CrossesAgainst(exitHandle))

\* the messages by which OnTick reports a position opened, a position closed and
\* a stop updated
OpenedMessages  == {"Long position opened", "Short position opened"}
ClosedMessages  == {"Long position closed due to RSI crossing above exit level",
                    "Long position closed due to price crossing below Trend EMA",
                    "Short position closed due to RSI crossing below exit level",
                    "Short position closed due to price crossing above Trend EMA"}
UpdatedMessages == {"Long position ATR-based trailing stop updated",
                    "Short position ATR-based trailing stop updated"}

Logged(msgs) == \E i \in DOMAIN log : log[i] \in msgs

\* C13 (as claimed): a tick reports a position opened, closed or its stop updated
\* only if a request of that kind was accepted in it, and a request the server
\* refused is not issued again for the same position in the same tick.
C13_RefusalNeverReportedAsDone ==
    /\ Logged(OpenedMessages)  => Accepted(reqs, IsOpen)
    /\ Logged(ClosedMessages)  => Accepted(reqs, IsClose)
    /\ Logged(UpdatedMessages) => Accepted(reqs, IsModify)
    /\ \A i, j \in DOMAIN reqs :
          (i < j /\ ~reqs[i].ok /\ reqs[i].ticket # 0) =>
              ~(reqs[j].kind = reqs[i].kind /\ reqs[j].ticket = reqs[i].ticket)

\* the take-profit the position with ticket k had before a tick's modify request:
\* the one it had when the tick began (ps), or the one it was opened with in the
\* tick (rq)
TakeProfitBefore(ps, rq, k) ==
    IF \E i \in DOMAIN ps : ps[i].ticket = k
    THEN ps[CHOOSE i \in DOMAIN ps : ps[i].ticket = k].tp
    ELSE rq[CHOOSE i \in DOMAIN rq : IsOpen(rq[i]) /\ rq[i].ticket = k].tp

\* C14 (as claimed): every modify-stop request carries the take-profit of the
\* position it changes, and over any sequence of ticks a position keeps its
\* take-profit and its side; only its stop-loss changes.
C14_ModifyKeepsTakeProfit ==
    [][now' # now =>
        /\ \A k \in DOMAIN reqs' :
              (IsModify(reqs'[k]) /\ reqs'[k].ticket # 0) =>
                  reqs'[k].tp = TakeProfitBefore(positions, reqs', reqs'[k].ticket)
        /\ \A i \in DOMAIN positions, j \in DOMAIN positions' :
              positions'[j].ticket = positions[i].ticket =>
                  /\ positions'[j].tp = positions[i].tp
                  /\ positions'[j].type = positions[i].type]_vars

\* C15: in integer points, every open-long request has stop-loss bid - InpStopLoss
\* and take-profit ask + InpTakeProfit, and every open-short request has stop-loss
\* ask + InpStopLoss and take-profit bid - InpTakeProfit, for the bid and ask of
\* the tick that issues it.
C15_EntryStopsFromQuotes ==
    \A i \in DOMAIN reqs :
        /\ reqs[i].kind = "Buy" =>
              /\ reqs[i].sl = tick.market.bid - InpStopLoss
              /\ reqs[i].tp = tick.market.ask + InpTakeProfit
        /\ reqs[i].kind = "Sell" =>
              /\ reqs[i].sl = tick.market.ask + InpStopLoss
              /\ reqs[i].tp = tick.market.bid - InpTakeProfit

\* a long opened at bid 1020, ask 1022: stop 970, 50 points under the bid
C15_Witness ==
    /\ tick.market.bid = 1020 /\ tick.market.ask = 1022
    /\ \E i \in DOMAIN reqs :
          reqs[i].kind = "Buy" /\ reqs[i].ok /\ reqs[i].sl = 970 /\ reqs[i].tp = 1122

\* C16: no tick issues both an open-long and an open-short request, and so no H1
\* bar sees more than one entry request over all its ticks.
C16_NoLongAndShortTogether ==
    /\ ~(Count(reqs, "Buy") > 0 /\ Count(reqs, "Sell") > 0)
    /\ bar.buys + bar.sells <= 1

\* a tick that opens a short while a long is held: both sides are asked for over
\* the run, never in one tick
C16_Witness ==
    /\ tick.selected.type = "BUY" /\ tick.held > 0
    /\ Count(reqs, "Sell") = 1 /\ Count(reqs, "Buy") = 0
    /\ bar.sells = 1 /\ bar.buys = 0

\* C17 (as claimed): every indicator handle OnTick creates is released before the
\* tick returns: while the expert runs, the live handles after any sequence of
\* ticks are exactly the four of OnInit.
C17_TickHandlesReleased ==
    ~stopped => handles = InitHandles

\* the two D1 handles of lines 147-148 are released by every tick that returns
D1HandlesReleased ==
    ~stopped => handles \cap {"trendHandleHigher", "rsiHandleHigher"} = {}

====
